---- MODULE Spec2Model ----
(***************************************************************************)
(* Model of ag.orbit.ops.Abstract (src/ag/orbit/ops/__init__.py): the      *)
(* shared framing, text-safety, URI, range and address helpers of ORBIT    *)
(* operations, and the default equality of operations.                     *)
(*                                                                         *)
(* Python values are represented as follows.                               *)
(*   str    a sequence of Unicode code points (naturals)                   *)
(*   bytes  a sequence of naturals in 0..255                               *)
(*   None   the record NoneVal; a present value v is Some(v)               *)
(*   raise  a result record whose field "raised" names the exception       *)
(***************************************************************************)
EXTENDS Integers, Sequences, FiniteSets, TLC

VARIABLES
    pc,               \* which helper the current call exercises and whether it returned
    text,             \* str argument of the text classifiers
    forbidden_types,  \* second argument of is_safe_unicode
    data,             \* bytes argument of read_text / deserialize_address
    safe,             \* results of is_safe_unicode and is_safe_ascii on text
    frame,            \* result of read_text(data)
    args,             \* arguments of validate_range / validate_range_bytesize
    ret,              \* result of the range validator called
    uri_text,         \* argument of is_link_uri / is_src_uri
    uri_ret,          \* results of is_link_uri and is_src_uri
    address,          \* address string given to validate_address / serialize_address
    fields,           \* (version, payload) fields laid out in data, in order
    rest,             \* trailing bytes laid out after the fields
    decoded,          \* results of the successive deserialize_address calls
    a, b,             \* two operation instances
    cmp               \* results of a == b and a != b

vars == <<pc, text, forbidden_types, data, safe, frame, args, ret,
          uri_text, uri_ret, address, fields, rest, decoded, a, b, cmp>>

----------------------------------------------------------------------------
(* Bounds of the model *)

MaxTextLen == 2      \* longest text, in code points
MaxRawLen == 2       \* longest arbitrary byte buffer given to read_text
MaxTailLen == 1      \* bytes following the separator in a framed buffer

----------------------------------------------------------------------------
(* Python values *)

NoneVal == [isNone |-> TRUE]
Some(v) == [isNone |-> FALSE, val |-> v]
Raise(e) == [raised |-> e]
Return(v) == [raised |-> "", value |-> v]
Pending == [raised |-> "pending"]

RECURSIVE SeqsUpTo(_, _)
SeqsUpTo(S, n) ==
    IF n = 0 THEN {<<>>}
    ELSE LET shorter == SeqsUpTo(S, n - 1)
         IN  shorter \cup {Append(s, x) : s \in {t \in shorter : Len(t) = n - 1}, x \in S}

Contains(s, x) == \E i \in 1..Len(s) : s[i] = x

----------------------------------------------------------------------------
(* Class constants *)

SEPARATOR == <<255>>     \* b'\xFF', a bytes object of length one

----------------------------------------------------------------------------
(* str.encode / bytes.decode for the 'utf-8' and 'ascii' codecs (strict) *)

IsSurrogate(c) == c >= 55296 /\ c <= 57343

\* Utf8Char with U+0080..U+00FF encoded as one byte, as Latin-1 would
Utf8Char_Latin1(c) ==
    IF c < 256 THEN <<c>>
    ELSE IF c < 2048 THEN <<192 + (c \div 64), 128 + (c % 64)>>
    ELSE IF c < 65536 THEN
        <<224 + (c \div 4096), 128 + ((c \div 64) % 64), 128 + (c % 64)>>
    ELSE <<240 + (c \div 262144), 128 + ((c \div 4096) % 64),
           128 + ((c \div 64) % 64), 128 + (c % 64)>>

\* UTF-8 bytes of one code point (the code point is not a surrogate)
Utf8Char(c) ==
    IF c < 128 THEN <<c>>
    ELSE IF c < 2048 THEN <<192 + (c \div 64), 128 + (c % 64)>>
    ELSE IF c < 65536 THEN
        <<224 + (c \div 4096), 128 + ((c \div 64) % 64), 128 + (c % 64)>>
    ELSE <<240 + (c \div 262144), 128 + ((c \div 4096) % 64),
           128 + ((c \div 64) % 64), 128 + (c % 64)>>

\* UTF-8 bytes of a text without surrogates
RECURSIVE Utf8(_)
Utf8(t) == IF t = <<>> THEN <<>> ELSE Utf8Char(Head(t)) \o Utf8(Tail(t))

\* text.encode('utf-8'): raises UnicodeEncodeError on a lone surrogate
encode_utf8(t) ==
    IF \E i \in 1..Len(t) : IsSurrogate(t[i]) THEN Raise("UnicodeEncodeError")
    ELSE Return(Utf8(t))

\* text.encode('ascii'): raises UnicodeEncodeError on any code point above 127
encode_ascii(t) ==
    IF \E i \in 1..Len(t) : t[i] > 127 THEN Raise("UnicodeEncodeError")
    ELSE Return(t)

IsCont(x) == x >= 128 /\ x <= 191

\* One step of the strict UTF-8 decoder at position i of d:
\* the code point and the number of bytes it takes, or n = 0 on an invalid,
\* overlong, surrogate, out-of-range or truncated sequence.
DecodeAt(d, i) ==
    LET b0 == d[i]
        have(k) == i + k <= Len(d) /\ \A j \in 1..k : IsCont(d[i + j])
    IN  IF b0 < 128 THEN [n |-> 1, cp |-> b0]
        ELSE IF b0 >= 194 /\ b0 <= 223 /\ have(1) THEN
            [n |-> 2, cp |-> (b0 - 192) * 64 + (d[i + 1] - 128)]
        ELSE IF b0 >= 224 /\ b0 <= 239 /\ have(2) THEN
            LET c == (b0 - 224) * 4096 + (d[i + 1] - 128) * 64 + (d[i + 2] - 128)
            IN  IF c >= 2048 /\ ~IsSurrogate(c) THEN [n |-> 3, cp |-> c]
                ELSE [n |-> 0, cp |-> 0]
        ELSE IF b0 >= 240 /\ b0 <= 244 /\ have(3) THEN
            LET c == (b0 - 240) * 262144 + (d[i + 1] - 128) * 4096
                     + (d[i + 2] - 128) * 64 + (d[i + 3] - 128)
            IN  IF c >= 65536 /\ c <= 1114111 THEN [n |-> 4, cp |-> c]
                ELSE [n |-> 0, cp |-> 0]
        ELSE [n |-> 0, cp |-> 0]

RECURSIVE DecodeFrom(_, _, _)
DecodeFrom(d, i, acc) ==
    IF i > Len(d) THEN Return(acc)
    ELSE LET s == DecodeAt(d, i)
         IN  IF s.n = 0 THEN Raise("UnicodeDecodeError")
             ELSE DecodeFrom(d, i + s.n, Append(acc, s.cp))

\* data.decode('utf-8')
decode_utf8(d) == DecodeFrom(d, 1, <<>>)

----------------------------------------------------------------------------
(* TextFramer *)

\* bytes.find(sub) for a one-byte sub: index (from 0) of the first occurrence, or -1
find(d, sub) ==
    IF \E i \in 1..Len(d) : d[i] = sub[1]
    THEN (CHOOSE i \in 1..Len(d) : d[i] = sub[1] /\ \A j \in 1..(i - 1) : d[j] # sub[1]) - 1
    ELSE -1

\* The value a successful read_text returns
Frame(t, consumed, done) == Return([text |-> t, consumed |-> consumed, done |-> done])

\* read_text counting the separator it found as consumed
read_text_ConsumesSeparator(d) ==
    LET end0 == find(d, SEPARATOR)
        done == end0 < 0
        end  == IF end0 < 0 THEN Len(d) ELSE end0
    IN  IF end0 = 0 THEN Frame(NoneVal, 0, FALSE)
        ELSE LET t == decode_utf8(SubSeq(d, 1, end))
             IN  IF t.raised # "" THEN t
                 ELSE Frame(Some(t.value), IF done THEN end ELSE end + 1, done)

\* read_text testing end == 0 after end was set to len(data)
read_text_NoneWhenEmpty(d) ==
    LET end0 == find(d, SEPARATOR)
        done == end0 < 0
        end  == IF end0 < 0 THEN Len(d) ELSE end0
    IN  IF end = 0 THEN Frame(NoneVal, 0, FALSE)
        ELSE LET t == decode_utf8(SubSeq(d, 1, end))
             IN  IF t.raised # "" THEN t
                 ELSE Frame(Some(t.value), end, done)

\* Abstract.read_text(data) with the default encoding
read_text(d) ==
    LET end0 == find(d, SEPARATOR)
        done == end0 < 0
        end  == IF end0 < 0 THEN Len(d) ELSE end0
    IN  IF end0 = 0 THEN Frame(NoneVal, 0, FALSE)
        ELSE LET t == decode_utf8(SubSeq(d, 1, end))
             IN  IF t.raised # "" THEN t
                 ELSE Frame(Some(t.value), end, done)

----------------------------------------------------------------------------
(* TextSafetyClassifier *)

\* unicodedata.category(c) for the code points the model draws texts from
category(c) ==
    CASE c = 31     -> <<"C", "c">>     \* U+001F unit separator
      [] c = 32     -> <<"Z", "s">>     \* U+0020 space
      [] c = 126    -> <<"S", "m">>     \* U+007E tilde
      [] c = 127    -> <<"C", "c">>     \* U+007F delete
      [] c = 255    -> <<"L", "l">>     \* U+00FF y with diaeresis
      [] c = 8364   -> <<"S", "c">>     \* U+20AC euro sign
      [] c = 55296  -> <<"C", "s">>     \* U+D800 lone surrogate
      [] c = 128512 -> <<"S", "o">>     \* U+1F600 grinning face

\* str.startswith
startswith(s, prefix) ==
    Len(prefix) <= Len(s) /\ SubSeq(s, 1, Len(prefix)) = prefix

\* Abstract.has_unicode_type(text, types)
has_unicode_type(t, types) ==
    \E i \in 1..Len(t) : \E ty \in types : startswith(category(t[i]), ty)

\* b == cls.SEPARATOR, where b is an element of a bytes object (an int) and
\* SEPARATOR is a bytes object: objects of these two types never compare equal
int_eq_bytes(x, s) == FALSE

\* Abstract.is_safe_unicode(text, forbidden_types)
is_safe_unicode(t, types) ==
    LET btext == encode_utf8(t)
    IN  IF btext.raised # "" THEN btext
        ELSE IF \E i \in 1..Len(btext.value) : int_eq_bytes(btext.value[i], SEPARATOR)
        THEN Return(FALSE)
        ELSE Return(~has_unicode_type(t, types))

\* Abstract.is_safe_ascii(text)
is_safe_ascii(t) ==
    LET btext == encode_ascii(t)
    IN  IF btext.raised # "" THEN FALSE
        ELSE ~\E i \in 1..Len(btext.value) :
                  \/ btext.value[i] < 32
                  \/ btext.value[i] > 126
                  \/ int_eq_bytes(btext.value[i], SEPARATOR)

----------------------------------------------------------------------------
(* Inputs of the text helpers *)

Chars == {31, 32, 126, 127, 255, 8364, 55296, 128512}
Texts == SeqsUpTo(Chars, MaxTextLen)
CategoryPrefixes == {<<>>, <<"C">>, <<"S", "c">>}
RawBytes == {65, 128, 195, 255}
RawBuffers == SeqsUpTo(RawBytes, MaxRawLen)
Tails == SeqsUpTo({65, 255}, MaxTailLen)

\* The wire form of a text field: its bytes, then the separator unless it is
\* the last field, then whatever follows
FramedBuffers(t) ==
    LET btext == encode_utf8(t)
    IN  IF btext.raised # "" THEN {}
        ELSE {btext.value} \cup {btext.value \o SEPARATOR \o tail : tail \in Tails}

----------------------------------------------------------------------------
(* Idle values of the variables a specification does not use *)

IdleText == text = <<>> /\ forbidden_types = {} /\ safe = Pending /\ frame = Pending
IdleRange == args = NoneVal /\ ret = Pending
IdleUri == uri_text = <<>> /\ uri_ret = Pending
IdleAddress == address = NoneVal /\ fields = <<>> /\ rest = <<>> /\ decoded = <<>>
IdleEq == a = NoneVal /\ b = NoneVal /\ cmp = Pending

textVars == <<text, forbidden_types, safe, frame>>
rangeVars == <<args, ret>>
uriVars == <<uri_text, uri_ret>>
addressVars == <<address, fields, rest, decoded>>
eqVars == <<a, b, cmp>>

----------------------------------------------------------------------------
(* Text classification and framing *)

InitText ==
    /\ pc = "text"
    /\ text \in Texts
    /\ forbidden_types \in SUBSET CategoryPrefixes
    /\ data \in RawBuffers \cup FramedBuffers(text)
    /\ safe = Pending
    /\ frame = Pending
    /\ IdleRange /\ IdleUri /\ IdleAddress /\ IdleEq

\* is_safe_unicode(text, forbidden_types) and is_safe_ascii(text)
Classify ==
    /\ pc = "text"
    /\ safe' = [unicode |-> is_safe_unicode(text, forbidden_types),
                ascii |-> is_safe_ascii(text)]
    /\ pc' = "classified"
    /\ UNCHANGED <<text, forbidden_types, data, frame>>
    /\ UNCHANGED <<rangeVars, uriVars, addressVars, eqVars>>

\* read_text(data)
ReadText ==
    /\ pc = "classified"
    /\ frame' = read_text(data)
    /\ pc' = "read"
    /\ UNCHANGED <<text, forbidden_types, data, safe>>
    /\ UNCHANGED <<rangeVars, uriVars, addressVars, eqVars>>

NextText == Classify \/ ReadText

SpecText == InitText /\ [][NextText]_vars

\* The buffer is exactly encode(text) followed by the single separator byte
FramedExactly ==
    /\ encode_utf8(text).raised = ""
    /\ data = encode_utf8(text).value \o SEPARATOR

\* C1 as stated: for every text T with is_safe_unicode(T, F) true, read_text
\* on encode(T) followed by the separator returns (T, len(encode(T)), True).
C1_AsStated ==
    (pc = "read" /\ safe.unicode = Return(TRUE) /\ FramedExactly)
        => frame = Frame(Some(text), Len(encode_utf8(text).value), TRUE)

\* C1 amended: for every non-empty safe text T, read_text on encode(T)
\* followed by the separator returns (T, len(encode(T)), False); for the
\* empty text it returns (None, 0, False).
C1_FramingRoundTrip ==
    (pc = "read" /\ safe.unicode = Return(TRUE) /\ FramedExactly)
        => frame = IF text = <<>> THEN Frame(NoneVal, 0, FALSE)
                   ELSE Frame(Some(text), Len(encode_utf8(text).value), FALSE)

C1_Witness ==
    /\ pc = "read" /\ safe.unicode = Return(TRUE) /\ FramedExactly
    /\ text = <<8364, 255>>
    /\ frame = Frame(Some(text), 5, FALSE)

\* C3: for every text T accepted by is_safe_ascii, or by is_safe_unicode for
\* some set of forbidden prefixes, encode(T) never contains the byte 0xFF, so
\* read_text on encode(T) followed by more data finds no separator inside T.
C3_SeparatorInvariant ==
    (pc # "text" /\ (safe.ascii \/ safe.unicode = Return(TRUE)))
        => /\ encode_utf8(text).raised = ""
           /\ ~Contains(encode_utf8(text).value, 255)
           /\ (safe.ascii => encode_ascii(text) = encode_utf8(text))
           /\ \A k \in 1..Len(data) :
                  (pc = "read" /\ k <= Len(encode_utf8(text).value)
                       /\ SubSeq(data, 1, k) = SubSeq(encode_utf8(text).value, 1, k))
                      => find(data, SEPARATOR) \notin 0..(k - 1)

C3_Witness ==
    /\ pc = "read" /\ ~safe.ascii /\ safe.unicode = Return(TRUE)
    /\ Contains(text, 255)
    /\ data = encode_utf8(text).value \o SEPARATOR \o <<255>>
    /\ frame.value.consumed = Len(encode_utf8(text).value)

\* C4 as stated: read_text on the empty buffer returns (None, 0, True).
C4_AsStated ==
    (pc = "read" /\ data = <<>>) => frame = Frame(NoneVal, 0, TRUE)

\* C4 amended: read_text on the empty buffer returns ('', 0, True): the text
\* component is the empty string, consumed is 0 and the flag is true.
C4_EmptyBuffer ==
    (pc = "read" /\ data = <<>>) => frame = Frame(Some(<<>>), 0, TRUE)

C4_Witness ==
    pc = "read" /\ data = <<>> /\ frame = Frame(Some(<<>>), 0, TRUE)

----------------------------------------------------------------------------
(* RangeValidator *)

MaxSize == 2         \* widest field of validate_range_bytesize, in bytes
MaxBound == 3        \* largest minval / maxval given to validate_range

\* The two ValueError the range validators raise, told apart by their message:
\* '... is out of range ...' and '... may not be zero'
OutOfRange == Raise("OutOfRange")
ZeroNotAllowed == Raise("ZeroNotAllowed")

\* value == 0, for a value that may be None
IsZero(value) == ~value.isNone /\ value.val = 0

\* validate_range with exclusive bounds
validate_range_Exclusive(value, minval, maxval, optional) ==
    IF ~optional /\ ~value.isNone /\ (value.val <= minval \/ value.val >= maxval)
    THEN OutOfRange
    ELSE Return(value)

\* Abstract.validate_range(name, value, minval, maxval, optional)
validate_range(value, minval, maxval, optional) ==
    IF ~optional /\ ~value.isNone /\ (value.val < minval \/ value.val > maxval)
    THEN OutOfRange
    ELSE Return(value)

\* validate_range_bytesize with bounds [0, 2^(8*size)-1] when signed is false
validate_range_bytesize_Unsigned(value, size, optional, allow_zero, signed) ==
    IF IsZero(value) /\ ~allow_zero THEN ZeroNotAllowed
    ELSE IF ~optional /\ ~value.isNone THEN
        LET minval == IF signed THEN 0 - 2^(8 * size - 1) ELSE 0
            maxval == IF signed THEN 2^(8 * size - 1) - 1 ELSE 2^(8 * size) - 1
        IN  IF value.val < minval \/ value.val > maxval THEN OutOfRange
            ELSE Return(value)
    ELSE Return(value)

\* Abstract.validate_range_bytesize(name, value, size, optional, allow_zero, signed)
validate_range_bytesize(value, size, optional, allow_zero, signed) ==
    IF IsZero(value) /\ ~allow_zero THEN ZeroNotAllowed
    ELSE IF ~optional /\ ~value.isNone THEN
        LET minval == 0 - 2^(8 * size - 1)
            maxval == 2^(8 * size - 1) - 1
        IN  IF value.val < minval \/ value.val > maxval THEN OutOfRange
            ELSE Return(value)
    ELSE Return(value)

Optional(S) == {NoneVal} \cup {Some(v) : v \in S}

\* Values on both sides of every signed and unsigned bound of widths 1..MaxSize
BoundaryValues ==
    {-1, 0, 1} \cup UNION { {0 - 2^(8 * s - 1) - 1, 0 - 2^(8 * s - 1), 2^(8 * s - 1) - 1,
                              2^(8 * s - 1), 2^(8 * s) - 1, 2^(8 * s)} : s \in 1..MaxSize }

RangeCalls ==
    [fn : {"validate_range"}, value : Optional(-1..(MaxBound + 1)),
     minval : 0..MaxBound, maxval : 0..MaxBound, optional : BOOLEAN]

BytesizeCalls ==
    [fn : {"validate_range_bytesize"}, value : Optional(BoundaryValues),
     size : 1..MaxSize, optional : BOOLEAN, allow_zero : BOOLEAN, signed : BOOLEAN]

InitRange ==
    /\ pc = "range"
    /\ args \in RangeCalls \cup BytesizeCalls
    /\ ret = Pending
    /\ data = <<>>
    /\ IdleText /\ IdleUri /\ IdleAddress /\ IdleEq

ValidateRange ==
    /\ pc = "range"
    /\ args.fn = "validate_range"
    /\ ret' = validate_range(args.value, args.minval, args.maxval, args.optional)
    /\ pc' = "returned"
    /\ UNCHANGED <<args, data, textVars, uriVars, addressVars, eqVars>>

ValidateRangeBytesize ==
    /\ pc = "range"
    /\ args.fn = "validate_range_bytesize"
    /\ ret' = validate_range_bytesize(args.value, args.size, args.optional,
                                      args.allow_zero, args.signed)
    /\ pc' = "returned"
    /\ UNCHANGED <<args, data, textVars, uriVars, addressVars, eqVars>>

NextRange == ValidateRange \/ ValidateRangeBytesize

SpecRange == InitRange /\ [][NextRange]_vars

\* C7: validate_range_bytesize with optional=false and an integer v fails
\* with ZeroNotAllowed when v = 0 and allow_zero is false; otherwise it
\* returns v iff -2^(8*size-1) <= v <= 2^(8*size-1)-1 and fails with
\* OutOfRange outside that interval, whatever the value of signed.
C7_BytesizeBounds ==
    (pc = "returned" /\ args.fn = "validate_range_bytesize"
         /\ ~args.optional /\ ~args.value.isNone)
        => LET v == args.value.val
           IN  ret = IF v = 0 /\ ~args.allow_zero THEN ZeroNotAllowed
                     ELSE IF 0 - 2^(8 * args.size - 1) <= v /\ v <= 2^(8 * args.size - 1) - 1
                     THEN Return(Some(v))
                     ELSE OutOfRange

C7_Witness ==
    /\ pc = "returned" /\ args.fn = "validate_range_bytesize"
    /\ ~args.optional /\ ~args.signed /\ args.size = 1
    /\ args.value = Some(128)
    /\ ret = OutOfRange

\* C8: validate_range with optional=false and a value that is not None fails
\* with OutOfRange iff value < minval or value > maxval; in every other case
\* (optional=true, or value None) it returns the value unchanged.
C8_ValidateRange ==
    (pc = "returned" /\ args.fn = "validate_range")
        => IF ~args.optional /\ ~args.value.isNone
           THEN /\ (ret = OutOfRange) <=>
                       (args.value.val < args.minval \/ args.value.val > args.maxval)
                /\ ret \in {OutOfRange, Return(args.value)}
           ELSE ret = Return(args.value)

C8_Witness ==
    /\ pc = "returned" /\ args.fn = "validate_range"
    /\ ~args.optional /\ args.minval < args.maxval
    /\ args.value = Some(args.minval)
    /\ ret = Return(args.value)

----------------------------------------------------------------------------
(* UriAcceptability *)

MaxUriTokens == 4    \* longest URI text, in tokens of UriTokens

\* Strings the URI texts are built from, as code points
HTTP == <<104, 116, 116, 112>>
HTTPS == <<104, 116, 116, 112, 115>>
FTP == <<102, 116, 112>>
DATA == <<100, 97, 116, 97>>
UriTokens ==
    {HTTP, HTTPS, FTP, DATA,
     <<58>>, <<47>>, <<47, 47, 120>>, <<120>>, <<233>>}    \* ':' '/' '//x' 'x' e-acute

RECURSIVE Flatten(_)
Flatten(ss) == IF ss = <<>> THEN <<>> ELSE Head(ss) \o Flatten(Tail(ss))

UriTexts == {Flatten(ts) : ts \in SeqsUpTo(UriTokens, MaxUriTokens)}

IsAlpha(c) == (c >= 65 /\ c <= 90) \/ (c >= 97 /\ c <= 122)
IsDigit(c) == c >= 48 /\ c <= 57
IsSchemeChar(c) == IsAlpha(c) \/ IsDigit(c) \/ c \in {43, 45, 46}     \* + - .
Delims == {47, 63, 35}                                                 \* / ? #

\* Index of the first element of s at or after i that is in S, or Len(s) + 1
FirstFrom(s, i, S) ==
    IF \E k \in i..Len(s) : s[k] \in S
    THEN CHOOSE k \in i..Len(s) : s[k] \in S /\ \A j \in i..(k - 1) : s[j] \notin S
    ELSE Len(s) + 1

OrNone(s) == IF s = <<>> THEN NoneVal ELSE Some(s)

\* host of an authority: a registered name, optionally followed by ':' and a
\* decimal port; None when the authority is absent or does not have that form
HostOf(authority) ==
    IF authority.isNone THEN NoneVal
    ELSE LET au == authority.val
             colon == FirstFrom(au, 1, {58})
             port == SubSeq(au, colon + 1, Len(au))
         IN  IF colon > Len(au) THEN Some(au)
             ELSE IF port # <<>> /\ \A k \in 1..Len(port) : IsDigit(port[k])
             THEN Some(SubSeq(au, 1, colon - 1))
             ELSE NoneVal

\* rfc3986.uri_reference(text): scheme up to the first ':' when what precedes
\* it is a scheme name, authority after '//' up to the next delimiter, then the
\* path; a component that is empty is None
uri_reference(t) ==
    LET colon == FirstFrom(t, 1, {58})
        hasScheme == /\ colon <= Len(t) /\ colon > 1 /\ IsAlpha(t[1])
                     /\ \A k \in 1..(colon - 1) : IsSchemeChar(t[k])
        afterScheme == IF hasScheme THEN colon + 1 ELSE 1
        hasAuthority == /\ afterScheme + 1 <= Len(t)
                        /\ t[afterScheme] = 47 /\ t[afterScheme + 1] = 47
        authorityEnd == IF hasAuthority THEN FirstFrom(t, afterScheme + 2, Delims)
                        ELSE afterScheme
        pathEnd == FirstFrom(t, authorityEnd, {63, 35})
        authority == IF hasAuthority
                     THEN OrNone(SubSeq(t, afterScheme + 2, authorityEnd - 1))
                     ELSE NoneVal
    IN  [scheme |-> IF hasScheme THEN Some(SubSeq(t, 1, colon - 1)) ELSE NoneVal,
         authority |-> authority,
         host |-> HostOf(authority),
         path |-> OrNone(SubSeq(t, authorityEnd, pathEnd - 1))]

\* Validator().require_presence_of(*required).allow_schemes(*schemes): an empty
\* set of schemes allows every scheme
Validator(required, schemes) == [required |-> required, allowed_schemes |-> schemes]

\* Validator.validate(uri): TRUE when it returns, FALSE when it raises
validate(v, uri) ==
    /\ \A c \in v.required : ~uri[c].isNone
    /\ (v.allowed_schemes # {} /\ ~uri.scheme.isNone) => uri.scheme.val \in v.allowed_schemes

link_uri_validator_1 == Validator({"scheme", "host"}, {})
link_uri_validator_2 == Validator({"scheme", "path"}, {})
src_uri_validator_1 == Validator({"scheme", "host", "path"}, {HTTP, HTTPS})
\* src_uri_validator_2 without its allow_schemes('data')
src_uri_validator_2_AnyScheme == Validator({"scheme", "path"}, {})
src_uri_validator_2 == Validator({"scheme", "path"}, {DATA})

\* The body shared by is_link_uri and is_src_uri: the value returned and, in
\* order, the validators whose validate() was called
TwoTier(t, validator_1, validator_2) ==
    IF ~is_safe_ascii(t) THEN [value |-> FALSE, tried |-> <<>>]
    ELSE LET uri == uri_reference(t)
         IN  IF validate(validator_1, uri) THEN [value |-> TRUE, tried |-> <<1>>]
             ELSE IF validate(validator_2, uri) THEN [value |-> TRUE, tried |-> <<1, 2>>]
             ELSE [value |-> FALSE, tried |-> <<1, 2>>]

\* Abstract.is_link_uri(text)
is_link_uri(t) == TwoTier(t, link_uri_validator_1, link_uri_validator_2)

\* Abstract.is_src_uri(text)
is_src_uri(t) == TwoTier(t, src_uri_validator_1, src_uri_validator_2)

InitUri ==
    /\ pc = "uri"
    /\ uri_text \in UriTexts
    /\ uri_ret = Pending
    /\ data = <<>>
    /\ IdleText /\ IdleRange /\ IdleAddress /\ IdleEq

CheckUri ==
    /\ pc = "uri"
    /\ uri_ret' = [link |-> is_link_uri(uri_text), src |-> is_src_uri(uri_text)]
    /\ pc' = "returned"
    /\ UNCHANGED <<uri_text, data, textVars, rangeVars, addressVars, eqVars>>

NextUri == CheckUri

SpecUri == InitUri /\ [][NextUri]_vars

Tier1Src(uri) ==
    /\ ~uri.scheme.isNone /\ ~uri.host.isNone /\ ~uri.path.isNone
    /\ uri.scheme.val \in {HTTP, HTTPS}

Tier2Src(uri) ==
    /\ ~uri.scheme.isNone /\ ~uri.path.isNone
    /\ uri.scheme.val = DATA

\* C9: is_src_uri(text) is true iff text is ASCII-safe and its parsed URI has
\* scheme, host and path with scheme http or https (tier 1), or scheme and
\* path with scheme data (tier 2); tier 1 is tried first and tier 2 only when
\* tier 1 raises; a text with only scheme and path and scheme ftp is accepted
\* by is_link_uri and rejected by is_src_uri.
C9_SrcUri ==
    pc = "returned" =>
        LET uri == uri_reference(uri_text)
            ok == is_safe_ascii(uri_text)
        IN  /\ uri_ret.src.value <=> (ok /\ (Tier1Src(uri) \/ Tier2Src(uri)))
            /\ uri_ret.src.tried = IF ~ok THEN <<>>
                                   ELSE IF Tier1Src(uri) THEN <<1>> ELSE <<1, 2>>
            /\ (ok /\ uri.scheme = Some(FTP) /\ uri.host.isNone /\ ~uri.path.isNone)
                   => (uri_ret.link.value /\ ~uri_ret.src.value)

C9_Witness ==
    /\ pc = "returned"
    /\ uri_text = FTP \o <<58, 47, 120>>
    /\ uri_ret.link.value /\ ~uri_ret.src.value
    /\ uri_ret.src.tried = <<1, 2>>

----------------------------------------------------------------------------
(* OperationContract: equality *)

\* Concrete operation types: Create and Transfer derive from Abstract,
\* CreateSub derives from Create
Classes == {"Create", "CreateSub", "Transfer"}
Base(c) == IF c = "CreateSub" THEN "Create" ELSE "Abstract"

RECURSIVE issubclass(_, _)
issubclass(c, d) == c = d \/ (c # "Abstract" /\ issubclass(Base(c), d))

\* isinstance(x, cls)
isinstance(x, cls) == issubclass(x.class, cls)

\* __eq__ testing isinstance(other, self.__class__) only
eq_OneDirection(self, other) ==
    IF isinstance(other, self.class)
    THEN self.dict = other.dict
    ELSE FALSE

\* Abstract.__eq__(self, other); dict equality is equality of the functions
eq(self, other) ==
    IF isinstance(other, self.class) \/ isinstance(self, other.class)
    THEN self.dict = other.dict
    ELSE FALSE

\* Abstract.__ne__(self, other)
ne(self, other) == ~eq(self, other)

AttrNames == {"x", "y"}
AttrValues == {0, 1}
EmptyDict == [n \in {} |-> 0]

InitEq ==
    /\ pc = "eq"
    /\ a \in [class : Classes, dict : {EmptyDict}]
    /\ b \in [class : Classes, dict : {EmptyDict}]
    /\ cmp = Pending
    /\ data = <<>>
    /\ IdleText /\ IdleRange /\ IdleUri /\ IdleAddress

setattr(obj, name, value) ==
    [obj EXCEPT !.dict = [n \in DOMAIN obj.dict \cup {name} |->
                              IF n = name THEN value ELSE obj.dict[n]]]

\* self.<name> = value on a
SetAttrA ==
    /\ pc = "eq"
    /\ \E name \in AttrNames, value \in AttrValues : a' = setattr(a, name, value)
    /\ cmp' = Pending
    /\ UNCHANGED <<pc, b, data, textVars, rangeVars, uriVars, addressVars>>

\* self.<name> = value on b
SetAttrB ==
    /\ pc = "eq"
    /\ \E name \in AttrNames, value \in AttrValues : b' = setattr(b, name, value)
    /\ cmp' = Pending
    /\ UNCHANGED <<pc, a, data, textVars, rangeVars, uriVars, addressVars>>

\* a == b and a != b
Compare ==
    /\ pc = "eq"
    /\ cmp' = [eq |-> eq(a, b), ne |-> ne(a, b)]
    /\ UNCHANGED <<pc, a, b, data, textVars, rangeVars, uriVars, addressVars>>

NextEq == SetAttrA \/ SetAttrB \/ Compare

SpecEq == InitEq /\ [][NextEq]_vars

Related(c, d) ==
    \/ c = d
    \/ (c = "CreateSub" /\ d = "Create")
    \/ (c = "Create" /\ d = "CreateSub")

SameFields(x, y) ==
    /\ DOMAIN x.dict = DOMAIN y.dict
    /\ \A n \in DOMAIN x.dict : x.dict[n] = y.dict[n]

\* C10: a == b iff the types of a and b are related by subtyping in either
\* direction and a and b have the same field names with equal values; same
\* type and identical fields are equal, one differing field value makes them
\* unequal, unrelated types are never equal, and a != b negates a == b.
C10_Equality ==
    cmp # Pending =>
        /\ cmp.eq <=> (Related(a.class, b.class) /\ SameFields(a, b))
        /\ cmp.ne <=> ~cmp.eq
        /\ (a.class = b.class /\ a.dict = b.dict) => cmp.eq
        /\ (\E n \in DOMAIN a.dict \cap DOMAIN b.dict : a.dict[n] # b.dict[n]) => ~cmp.eq
        /\ ~Related(a.class, b.class) => ~cmp.eq

C10_Witness ==
    /\ cmp # Pending
    /\ a.class = "CreateSub" /\ b.class = "Create"
    /\ DOMAIN a.dict = AttrNames /\ a.dict = b.dict
    /\ cmp.eq /\ ~cmp.ne

----------------------------------------------------------------------------
(* The cashaddress library, as far as Abstract calls it.  An address string  *)
(* is represented by what its text encodes: the format it is written in      *)
(* (legacy base58 or cash address), the address type and the payload bytes.  *)

MaxPayloadLen == 1   \* longest address payload, in bytes
MaxFields == 2       \* most address fields laid out in one buffer
MaxRestLen == 3      \* most bytes following the address fields

Name(n) == [name |-> n]      \* a version given by name, as Address.from_string sets it
Code(c) == [code |-> c]      \* a version given by its number

\* Address.VERSION_MAP: (name, version number) per format
VERSION_MAP ==
    [legacy |-> <<<<Name("P2SH"), Code(5)>>, <<Name("P2PKH"), Code(0)>>>>,
     cash   |-> <<<<Name("P2SH"), Code(8)>>, <<Name("P2PKH"), Code(0)>>>>]

\* Address._address_type(address_type, version): the first mapping whose name
\* or number is version; raises InvalidAddress when there is none
address_type(family, version) ==
    LET m == VERSION_MAP[family]
        hit(i) == m[i][1] = version \/ m[i][2] = version
    IN  IF \E i \in 1..Len(m) : hit(i)
        THEN Return(m[CHOOSE i \in 1..Len(m) : hit(i) /\ \A j \in 1..(i - 1) : ~hit(j)])
        ELSE Raise("InvalidAddress")

\* Address.from_string(address): the Address (version name, payload) a legacy
\* or a cash address string denotes; raises InvalidAddress on any other string
from_string(s) ==
    IF s.form \in {"legacy", "cash"}
    THEN Return([version |-> Name(s.kind), payload |-> s.payload])
    ELSE Raise("InvalidAddress")

\* is_valid(address)
is_valid(s) == from_string(s).raised = ""

\* Address(version, payload).cash_address(): always a cash address string
cash_address(version, payload) ==
    LET t == address_type("cash", version)
    IN  IF t.raised # "" THEN t
        ELSE Return([form |-> "cash", kind |-> t.value[1].name, payload |-> payload])

----------------------------------------------------------------------------
(* AddressCodec *)

\* data[lo:hi] (indices from 0, hi exclusive), clipped to the data as a
\* Python slice is
Slice(d, lo, hi) ==
    SubSeq(d, lo + 1, IF hi > Len(d) THEN Len(d) ELSE hi)

\* n.to_bytes(1, 'big')
to_bytes1(n) == IF n > 255 THEN Raise("OverflowError") ELSE Return(<<n>>)

\* Abstract.validate_address(name, address)
validate_address(s) ==
    IF ~is_valid(s) THEN Raise("InvalidAddress") ELSE Return(s)

\* Abstract.serialize_address(address)
serialize_address(s) ==
    LET addr == from_string(s)
    IN  IF addr.raised # "" THEN addr
        ELSE LET t == address_type("cash", addr.value.version)
                 len == to_bytes1(Len(addr.value.payload))
             IN  IF t.raised # "" THEN t
                 ELSE IF len.raised # "" THEN len
                 ELSE Return(<<t.value[2].code>> \o len.value \o addr.value.payload)

\* deserialize_address without the second length test
deserialize_address_Unchecked(d) ==
    IF Len(d) < 2 THEN Raise("TruncatedData")
    ELSE LET addr_ver == d[1]
             addr_len == d[2]
             addr == cash_address(Code(addr_ver), Slice(d, 2, addr_len + 2))
         IN  IF addr.raised # "" THEN addr
             ELSE Return([address |-> addr.value,
                          data |-> Slice(d, 2 + addr_len, Len(d))])

\* deserialize_address leaving the length byte out of what it consumed
deserialize_address_ShortSkip(d) ==
    IF Len(d) < 2 THEN Raise("TruncatedData")
    ELSE LET addr_ver == d[1]
             addr_len == d[2]
         IN  IF Len(d) < addr_len + 2 THEN Raise("TruncatedData")
             ELSE LET addr == cash_address(Code(addr_ver), Slice(d, 2, addr_len + 2))
                  IN  IF addr.raised # "" THEN addr
                      ELSE Return([address |-> addr.value,
                                   data |-> Slice(d, 1 + addr_len, Len(d))])

\* Abstract.deserialize_address(data); both 'Not enough data' ValueError are
\* named TruncatedData
deserialize_address(d) ==
    IF Len(d) < 2 THEN Raise("TruncatedData")
    ELSE LET addr_ver == d[1]
             addr_len == d[2]
         IN  IF Len(d) < addr_len + 2 THEN Raise("TruncatedData")
             ELSE LET addr == cash_address(Code(addr_ver), Slice(d, 2, addr_len + 2))
                  IN  IF addr.raised # "" THEN addr
                      ELSE Return([address |-> addr.value,
                                   data |-> Slice(d, 2 + addr_len, Len(d))])

----------------------------------------------------------------------------
(* Address round trip and sequential decoding *)

Payloads == SeqsUpTo({0, 9}, MaxPayloadLen)
Kinds == {"P2PKH", "P2SH"}
AddressStrings == [form : {"legacy", "cash"}, kind : Kinds, payload : Payloads]
OtherStrings == [form : {"other"}, kind : {"P2PKH"}, payload : {<<>>}]

FieldVersions == {0, 1, 8}
Fields == [version : FieldVersions, payload : Payloads]
RestBytes == {0, 1, 8}

\* [version:1][length:1][payload:length] for each field, in order
RECURSIVE Layout(_)
Layout(fs) ==
    IF fs = <<>> THEN <<>>
    ELSE <<Head(fs).version, Len(Head(fs).payload)>> \o Head(fs).payload \o Layout(Tail(fs))

InitAddress ==
    /\ decoded = <<>>
    /\ \/ /\ pc = "validate"
          /\ address \in AddressStrings \cup OtherStrings
          /\ fields = <<>> /\ rest = <<>> /\ data = <<>>
       \/ /\ pc = "decode"
          /\ address = NoneVal
          /\ fields \in SeqsUpTo(Fields, MaxFields)
          /\ rest \in SeqsUpTo(RestBytes, MaxRestLen)
          /\ data = Layout(fields) \o rest
    /\ IdleText /\ IdleRange /\ IdleUri /\ IdleEq

\* validate_address(name, address)
ValidateAddress ==
    /\ pc = "validate"
    /\ pc' = IF validate_address(address).raised = "" THEN "serialize" ELSE "rejected"
    /\ UNCHANGED <<data, address, fields, rest, decoded>>
    /\ UNCHANGED <<textVars, rangeVars, uriVars, eqVars>>

\* data = serialize_address(address)
SerializeAddress ==
    /\ pc = "serialize"
    /\ serialize_address(address).raised = ""
    /\ data' = serialize_address(address).value
    /\ pc' = "decode"
    /\ UNCHANGED <<address, fields, rest, decoded>>
    /\ UNCHANGED <<textVars, rangeVars, uriVars, eqVars>>

Failed == decoded # <<>> /\ decoded[Len(decoded)].out.raised # ""

\* (address, data) = deserialize_address(data): one more call on the remainder
\* the previous call returned
DeserializeAddress ==
    /\ pc = "decode"
    /\ ~Failed
    /\ Len(decoded) < (IF address = NoneVal THEN MaxFields ELSE 1)
    /\ LET out == deserialize_address(data)
       IN  /\ decoded' = Append(decoded, [in |-> data, out |-> out])
           /\ data' = IF out.raised = "" THEN out.value.data ELSE data
    /\ UNCHANGED <<pc, address, fields, rest>>
    /\ UNCHANGED <<textVars, rangeVars, uriVars, eqVars>>

NextAddress == ValidateAddress \/ SerializeAddress \/ DeserializeAddress

SpecAddress == InitAddress /\ [][NextAddress]_vars

\* C2: for every address string A that validate_address accepts,
\* deserialize_address(serialize_address(A)) returns (A, b'').
C2_AddressRoundTrip ==
    (pc = "decode" /\ address # NoneVal /\ decoded # <<>>)
        => decoded[1].out = Return([address |-> address, data |-> <<>>])

\* The fields after the first i, then the trailing bytes
Remainder(i) == Layout(SubSeq(fields, i + 1, Len(fields))) \o rest

\* The i-th call returned the cash address of field i, consumed 2 + len(p_i)
\* bytes and left the later fields and the trailing bytes
DecodedField(i) ==
    /\ decoded[i].out.raised = ""
    /\ cash_address(Code(fields[i].version), fields[i].payload)
           = Return(decoded[i].out.value.address)
    /\ decoded[i].out.value.address.payload = fields[i].payload
    /\ Len(decoded[i].in) - Len(decoded[i].out.value.data) = 2 + Len(fields[i].payload)
    /\ decoded[i].out.value.data = Remainder(i)

\* C5 as stated: for any fields (v_1,p_1)..(v_n,p_n) and trailing bytes R, the
\* i-th of n successive deserialize_address calls succeeds, returns the
\* address of (v_i,p_i), consumes 2 + len(p_i) bytes, and R remains at the end.
C5_AsStated ==
    (pc = "decode" /\ address = NoneVal)
        => \A i \in 1..Len(fields) : i <= Len(decoded) => DecodedField(i)

KnownVersion(v) == v \in {0, 8}

\* C5 amended: the same, for fields whose version bytes are version numbers of
\* the cash address format (0 or 8).
C5_SequentialDecoding ==
    (pc = "decode" /\ address = NoneVal)
        => \A i \in 1..Len(fields) :
               (i <= Len(decoded) /\ \A j \in 1..i : KnownVersion(fields[j].version))
                   => /\ DecodedField(i)
                      /\ (i = Len(fields) => decoded[i].out.value.data = rest)

C5_Witness ==
    /\ pc = "decode" /\ address = NoneVal
    /\ Len(fields) = 2 /\ Len(decoded) = 2
    /\ fields[1].version = 8 /\ fields[2].version = 0
    /\ fields[1].payload # <<>>
    /\ rest # <<>>
    /\ DecodedField(2)
    /\ decoded[2].out.value.data = rest

\* C6: deserialize_address(data) fails with TruncatedData iff len(data) < 2 or
\* len(data) < data[1] + 2, and then returns neither address nor remainder.
C6_Truncation ==
    \A i \in 1..Len(decoded) :
        LET d == decoded[i].in
        IN  /\ (decoded[i].out.raised = "TruncatedData")
                <=> (Len(d) < 2 \/ Len(d) < d[2] + 2)
            /\ decoded[i].out.raised = "TruncatedData" => decoded[i].out = Raise("TruncatedData")

C6_Witness ==
    /\ decoded # <<>>
    /\ decoded[1].in = <<0, 8, 1>>
    /\ decoded[1].out = Raise("TruncatedData")

----------------------------------------------------------------------------
(* All helpers together *)

Init == InitText \/ InitRange \/ InitUri \/ InitEq \/ InitAddress

Next == NextText \/ NextRange \/ NextUri \/ NextEq \/ NextAddress

Spec == Init /\ [][Next]_vars

====
